---- MODULE Spec2Model ----
(***************************************************************************)
(* Model of the scuemata surface (surface.go): a lineage is a chain of     *)
(* schemas linked by Successor(); Find and SearchAndValidate traverse it.  *)
(*                                                                         *)
(* A schema is modelled by its position in the chain (1..Len(lineage)),    *)
(* the nil Schema by Nil.  lineage[s] is the <<major, minor>> that         *)
(* s.Version() reports.                                                    *)
(***************************************************************************)
EXTENDS Integers, Sequences, FiniteSets, TLC

\* ---- bounds ----
MaxSeqs == 2          \* sequences (major versions) in a lineage
MaxMinors == 2        \* schemas per sequence
MaxOpts == 2          \* option constructors composed into one SearchOption
MaxListLen == 2       \* elements of a list passed to ApplyDefaults and TrimDefaults
MaxBoundaries == 2    \* sequence boundaries in a lineage that is translated across
MaxCalls == 3         \* calls of Write, of Writer and on a returned writer in one test

VARIABLES
    lineage,    \* the chain of schemas: lineage[s] = Version() of schema s
    op,         \* the last operation called: "none", "Find", "SearchAndValidate"
    start,      \* its Schema argument
    opt,        \* Find: the SearchOption, as the constructors it applies in order
    resource,   \* SearchAndValidate: the value v, as what each schema's Validate says of it
    outcome,    \* "none", "return" or "panic"
    result,     \* the returned Schema (Nil for nil)
    err,        \* the returned error (NoErr for nil)
    visited,    \* SearchAndValidate: the schemas Validate was called on, in call order
    array,      \* AsArray: the returned [][]Schema
    scue,       \* ApplyDefaults, TrimDefaults, getDefault: the schema cue.Value
    rin,        \* the Resource passed to the call
    rout,       \* the Resource returned by the call
    lacunas,    \* Translate: the lacunas the step produced
    target,     \* translation to a version: the version asked for
    steps,      \* translation to a version: what the step from each schema comes to
    candidate,  \* binding: the lineage source handed to the validator
    tc,         \* txtartest: the Test handed to the test function
    heap,       \* txtartest: the contents of each bytes.Buffer allocated, by address
    archive,    \* txtartest: a.Files, the files of the txtar archive
    golden,     \* txtartest: the files of the archive as they were parsed
    UpdateGoldenFiles, \* txtartest: envvars.UpdateGoldenFiles
    handed,     \* txtartest: the writers Writer returned: <<name asked, output name, buffer>>
    sent,       \* txtartest: the bytes written, in order: <<output name, byte>>
    calls,      \* txtartest: the number of calls the test function made
    failed,     \* txtartest: whether the test was marked as failed
    logs,       \* txtartest: what Run reported: <<kind of report, output name>>
    saved,      \* txtartest: whether Run rewrote the archive file
    dflt,       \* getDefault: the pair it returns
    orElement   \* whether LookupPath(AnyIndex) finds the element type of the
                \* open list inside a disjunction of lists (the cue library decides)

vars == <<lineage, op, start, opt, resource, outcome, result, err, visited,
          array, scue, rin, rout, lacunas, target, steps, candidate, dflt, orElement,
          tc, heap, archive, golden, UpdateGoldenFiles, handed, sent, calls, failed, logs,
          saved>>

\* The variables of a test of the txtar harness.
harnessVars == <<tc, heap, archive, golden, UpdateGoldenFiles, handed, sent, calls, failed,
                 logs, saved>>

\* The variables of a translation to a version and of a binding.
translateVars == <<target, steps, candidate>>

\* The variables a call on the lineage leaves alone.
valueVars == <<scue, rin, rout, dflt, orElement>>

Nil == 0
NoErr == "nil"
NoValue == [k |-> "none"]
NoResource == [Value |-> NoValue, Name |-> ""]
NoCandidate == [name |-> "", seqs |-> <<>>, lenses |-> {}]

\* A Test as Run constructs it: no default buffer (nil), no output files.
NewTest(allow) == [buf |-> Nil, outFiles |-> <<>>, AllowFilesetDivergence |-> allow]

\* No test is running.
HarnessIdle ==
    /\ tc = NewTest(FALSE)
    /\ heap = <<>>
    /\ archive = <<>>
    /\ golden = <<>>
    /\ UpdateGoldenFiles = FALSE
    /\ handed = {}
    /\ sent = <<>>
    /\ calls = 0
    /\ failed = FALSE
    /\ logs = {}
    /\ saved = FALSE
Diagnostics == {"diag1", "diag2"}

\* ---- the lineage: sequences of schemas, versions derived from position ----

RECURSIVE SeqVersions(_, _, _)
SeqVersions(maj, n, k) ==
    IF k >= n THEN <<>> ELSE <<(<<maj, k>>)>> \o SeqVersions(maj, n, k + 1)

RECURSIVE Flat(_, _)
Flat(sizes, i) ==
    IF i > Len(sizes) THEN <<>>
    ELSE SeqVersions(i - 1, sizes[i], 0) \o Flat(sizes, i + 1)

Shapes == UNION {[1..k -> 1..MaxMinors] : k \in 1..MaxSeqs}

Lineages == {Flat(sizes, 1) : sizes \in Shapes}

Schemas == 1..Len(lineage)

First == 1

Last == Len(lineage)

Successor(s) == IF s < Len(lineage) THEN s + 1 ELSE Nil

Version(s) == lineage[s]

\* ---- search options ----

ssopt0 ==
    [latest |-> FALSE, latestInMajor |-> 0, hasLatestInMajor |-> FALSE,
     latestInCurrentMajor |-> FALSE, exact |-> <<0, 0>>]

Latest == [kind |-> "Latest", maj |-> 0, min |-> 0]

LatestInMajor(m) == [kind |-> "LatestInMajor", maj |-> m, min |-> 0]

LatestInCurrentMajor == [kind |-> "LatestInCurrentMajor", maj |-> 0, min |-> 0]

Exact(m, n) == [kind |-> "Exact", maj |-> m, min |-> n]

\* The constructors' closures, applied to p.
ApplyOption(o, p) ==
    CASE o.kind = "Latest" -> [p EXCEPT !.latest = TRUE]
      [] o.kind = "LatestInMajor" -> [p EXCEPT !.latestInMajor = o.maj]
      [] o.kind = "LatestInCurrentMajor" -> [p EXCEPT !.latestInCurrentMajor = TRUE]
      [] o.kind = "Exact" -> [p EXCEPT !.exact = <<o.maj, o.min>>]

\* A SearchOption is any func(p *ssopt): here, constructors' closures run in order.
RECURSIVE SearchOption(_, _)
SearchOption(os, p) ==
    IF os = <<>> THEN p ELSE SearchOption(Tail(os), ApplyOption(Head(os), p))

RECURSIVE OnesCount16(_)
OnesCount16(w) == IF w = 0 THEN 0 ELSE (w % 2) + OnesCount16(w \div 2)

\* ssopt.validate: NoErr, or the error it returns.
validate(p) ==
    LET w1 == IF p.latest THEN 2 ELSE 0
        w2 == IF p.exact # <<0, 0>> THEN 4 ELSE 0
        w3 == IF p.hasLatestInMajor /\ p.latestInMajor # -1 THEN 8 ELSE 0
        w4 == IF p.latestInCurrentMajor THEN 16 ELSE 0
        which == (w1 + w2 + w3 + w4) % 65536
    IN  IF ~p.hasLatestInMajor /\ p.latestInMajor # 0
        THEN "latestInMajor should never be non-zero if hasLatestInMajor is false"
        ELSE IF OnesCount16(which) # 1
             THEN "may only pass one SchemaSearchOption"
             ELSE NoErr

\* ---- Find ----

Returned(s) == [outcome |-> "return", result |-> s]

Panicked == [outcome |-> "panic", result |-> Nil]

\* FindLatest stopping at the end of the start schema's sequence.
RECURSIVE FindLatest_stopsAtSequenceEnd(_)
FindLatest_stopsAtSequenceEnd(s) ==
    IF Successor(s) # Nil /\ Version(Successor(s))[1] = Version(s)[1]
    THEN FindLatest_stopsAtSequenceEnd(Successor(s))
    ELSE s

\* case p.latest
RECURSIVE FindLatest(_)
FindLatest(s) == IF Successor(s) # Nil THEN FindLatest(Successor(s)) ELSE s

\* LatestInMajorLoop returning s, the schema it stopped at, in place of last.
RECURSIVE LatestInMajorLoop_returnsCurrent(_, _, _, _)
LatestInMajorLoop_returnsCurrent(s, imaj, last, latestInMajor) ==
    IF imaj <= latestInMajor
    THEN LET s2 == Successor(s)
         IN  IF s2 = Nil
             THEN (IF imaj = latestInMajor THEN s ELSE Nil)
             ELSE LatestInMajorLoop_returnsCurrent(s2, Version(s2)[1], s, latestInMajor)
    ELSE s

\* the loop of case p.hasLatestInMajor
RECURSIVE LatestInMajorLoop(_, _, _, _)
LatestInMajorLoop(s, imaj, last, latestInMajor) ==
    IF imaj <= latestInMajor
    THEN LET s2 == Successor(s)
         IN  IF s2 = Nil
             THEN (IF imaj = latestInMajor THEN s ELSE Nil)
             ELSE LatestInMajorLoop(s2, Version(s2)[1], s, latestInMajor)
    ELSE last

\* case p.hasLatestInMajor (and case p.latestInCurrentMajor falling through)
FindLatestInMajor(s, latestInMajor) ==
    LET imaj == Version(s)[1]
    IN  IF imaj > latestInMajor THEN Nil
        ELSE LatestInMajorLoop(s, imaj, Nil, latestInMajor)

\* FindExact searching the whole lineage, the schemas before s included.
FindExact_fromFirst(s, exact) ==
    IF s = Nil THEN Nil
    ELSE IF \E t \in Schemas : Version(t) = exact
         THEN CHOOSE t \in Schemas : Version(t) = exact
         ELSE Nil

\* default: exact
RECURSIVE FindExact(_, _)
FindExact(s, exact) ==
    IF s = Nil THEN Nil
    ELSE IF exact = Version(s) THEN s
    ELSE FindExact(Successor(s), exact)

\* Find validating the option before it looks at s.
Find_validatesFirst(s, os) ==
    LET p == SearchOption(os, ssopt0)
    IN  IF validate(p) # NoErr THEN Panicked
        ELSE IF s = Nil THEN Returned(Nil)
        ELSE IF p.latest THEN Returned(FindLatest(s))
        ELSE IF p.latestInCurrentMajor
             THEN Returned(FindLatestInMajor(s, Version(s)[1]))
        ELSE IF p.hasLatestInMajor
             THEN Returned(FindLatestInMajor(s, p.latestInMajor))
        ELSE Returned(FindExact(s, p.exact))

Find(s, os) ==
    IF s = Nil THEN Returned(Nil)
    ELSE LET p == SearchOption(os, ssopt0)
         IN  IF validate(p) # NoErr THEN Panicked
             ELSE IF p.latest THEN Returned(FindLatest(s))
             ELSE IF p.latestInCurrentMajor
                  THEN Returned(FindLatestInMajor(s, Version(s)[1]))
             ELSE IF p.hasLatestInMajor
                  THEN Returned(FindLatestInMajor(s, p.latestInMajor))
             ELSE Returned(FindExact(s, p.exact))

\* ---- SearchAndValidate ----

\* Schema.Validate(Resource{Value: v}): the resource says what each schema finds.
Validate(s, v) == v[s]

\* AsArray, first loop: the schemas from sch on.
RECURSIVE Collect(_)
Collect(sch) == IF sch = Nil THEN <<>> ELSE <<sch>> \o Collect(Successor(sch))

\* AsArray, second loop; ret[maj] is ret[maj + 1] here. An index out of range panics.
RECURSIVE Collate(_, _, _)
Collate(flat, k, ret) ==
    IF k > Len(flat) THEN [panic |-> FALSE, arr |-> ret]
    ELSE LET maj == Version(flat[k])[1]
             ret1 == IF Len(ret) = maj THEN Append(ret, <<>>) ELSE ret
         IN  IF maj < 0 \/ maj >= Len(ret1)
             THEN [panic |-> TRUE, arr |-> ret1]
             ELSE Collate(flat, k + 1,
                          [ret1 EXCEPT ![maj + 1] = Append(@, flat[k])])

AsArray(sch) == Collate(Collect(sch), 1, <<>>)

\* The loops of SearchAndValidate, at arr[o][i] (1-based), e the last error.
RECURSIVE SearchLoop(_, _, _, _, _, _)
SearchLoop(arr, v, o, i, e, vis) ==
    IF o < 1 THEN [outcome |-> "return", result |-> Nil, err |-> e, visited |-> vis]
    ELSE IF i < 1
         THEN SearchLoop(arr, v, o - 1, IF o > 1 THEN Len(arr[o - 1]) ELSE 0, e, vis)
         ELSE LET e2 == Validate(arr[o][i], v)
              IN  IF e2 = NoErr
                  THEN [outcome |-> "return", result |-> arr[o][i], err |-> NoErr,
                        visited |-> Append(vis, arr[o][i])]
                  ELSE SearchLoop(arr, v, o, i - 1, e2, Append(vis, arr[o][i]))

SearchAndValidate(s, v) ==
    LET a == AsArray(s)
        n == Len(a.arr)
    IN  IF a.panic
        THEN [outcome |-> "panic", result |-> Nil, err |-> NoErr, visited |-> <<>>]
        ELSE SearchLoop(a.arr, v, n, IF n > 0 THEN Len(a.arr[n]) ELSE 0, NoErr, <<>>)

\* ---- cue.Value: the values ApplyDefaults and TrimDefaults work on ----

\* A value that is an error.
Bottom == [k |-> "bottom"]

\* A concrete scalar; "1" and "2" are ints, every other atom is a string.
Atom(a) == [k |-> "atom", v |-> a]

\* A basic type, int or string.
Type(t) == [k |-> "type", t |-> t]

\* A struct: fs maps each label to a field, optional (label?: v) or regular.
Struct(fs) == [k |-> "struct", fs |-> fs]

Field(o, v) == [opt |-> o, v |-> v]

\* A closed list [e1, ..., en].
List(es) == [k |-> "list", es |-> es, open |-> FALSE, ele |-> NoValue]

\* An open list [...ele].
OpenList(ele) == [k |-> "list", es |-> <<>>, open |-> TRUE, ele |-> ele]

\* A disjunction b1 | ... | bn; def is the branch marked as default (*), 0 for none.
Or(bs, d) == [k |-> "or", bs |-> bs, def |-> d]

TypeOf(a) == IF a \in {"1", "2"} THEN "int" ELSE "string"

Branches(v) == IF v.k = "or" THEN v.bs ELSE <<v>>

DefaultBranch(v) == IF v.k = "or" THEN v.def ELSE 0

\* s without the elements that repeat an earlier one.
RECURSIVE Dedup(_)
Dedup(s) ==
    IF s = <<>> THEN <<>>
    ELSE LET init == Dedup(SubSeq(s, 1, Len(s) - 1))
             last == s[Len(s)]
         IN  IF \E i \in 1..Len(init) : init[i] = last THEN init
             ELSE Append(init, last)

\* Value.Unify
RECURSIVE Unify(_, _)
RECURSIVE UnifyPlain(_, _)
UnifyPlain(a, b) ==
    CASE a.k = "atom" /\ b.k = "atom" -> IF a = b THEN a ELSE Bottom
      [] a.k = "atom" /\ b.k = "type" -> IF TypeOf(a.v) = b.t THEN a ELSE Bottom
      [] a.k = "type" /\ b.k = "atom" -> IF TypeOf(b.v) = a.t THEN b ELSE Bottom
      [] a.k = "type" /\ b.k = "type" -> IF a = b THEN a ELSE Bottom
      [] a.k = "struct" /\ b.k = "struct" ->
            LET fs == [l \in DOMAIN a.fs \cup DOMAIN b.fs |->
                        IF l \in DOMAIN a.fs /\ l \in DOMAIN b.fs
                        THEN Field(a.fs[l].opt /\ b.fs[l].opt,
                                   Unify(a.fs[l].v, b.fs[l].v))
                        ELSE IF l \in DOMAIN a.fs THEN a.fs[l] ELSE b.fs[l]]
            IN  IF \E l \in DOMAIN fs : ~fs[l].opt /\ fs[l].v = Bottom
                THEN Bottom ELSE Struct(fs)
      [] a.k = "list" /\ b.k = "list" ->
            IF a.open /\ b.open THEN OpenList(Unify(a.ele, b.ele))
            ELSE LET n == IF a.open THEN Len(b.es) ELSE Len(a.es)
                     ae(i) == IF a.open THEN a.ele ELSE a.es[i]
                     be(i) == IF b.open THEN b.ele ELSE b.es[i]
                     es == [i \in 1..n |-> Unify(ae(i), be(i))]
                 IN  IF ~a.open /\ ~b.open /\ Len(a.es) # Len(b.es) THEN Bottom
                     ELSE IF \E i \in 1..n : es[i] = Bottom THEN Bottom
                     ELSE List(es)
      [] OTHER -> Bottom

Unify(a, b) ==
    IF a.k # "or" /\ b.k # "or" THEN UnifyPlain(a, b)
    ELSE LET as == Branches(a)
             bs == Branches(b)
             n == Len(bs)
             ai(x) == ((x - 1) \div n) + 1
             bi(x) == ((x - 1) % n) + 1
             marked(x) ==
                /\ DefaultBranch(a) > 0 \/ DefaultBranch(b) > 0
                /\ DefaultBranch(a) \in {0, ai(x)}
                /\ DefaultBranch(b) \in {0, bi(x)}
             all == [x \in 1..(Len(as) * n) |-> Unify(as[ai(x)], bs[bi(x)])]
             live == Dedup(SelectSeq(all, LAMBDA v : v # Bottom))
             defs == {i \in 1..Len(live) :
                        \E x \in 1..Len(all) : marked(x) /\ all[x] = live[i]}
         IN  IF live = <<>> THEN Bottom
             ELSE IF Len(live) = 1 THEN live[1]
             ELSE Or(live, IF defs = {} THEN 0 ELSE CHOOSE i \in defs : TRUE)

\* Value.IncompleteKind
RECURSIVE IncompleteKind(_)
IncompleteKind(v) ==
    CASE v.k = "atom" -> TypeOf(v.v)
      [] v.k = "type" -> v.t
      [] v.k = "or" ->
            IF \A i \in 1..Len(v.bs) : IncompleteKind(v.bs[i]) = IncompleteKind(v.bs[1])
            THEN IncompleteKind(v.bs[1]) ELSE "mixed"
      [] OTHER -> v.k

\* Value.Kind: the kind of a concrete value, "bottom" for a value that is not.
Kind(v) ==
    CASE v.k = "atom" -> TypeOf(v.v)
      [] v.k = "struct" -> "struct"
      [] v.k = "list" -> IF v.open THEN "bottom" ELSE "list"
      [] OTHER -> "bottom"

\* Value.Exists
Exists(v) == v # NoValue

\* Value.Validate(cue.Concrete(true)) succeeds: no error, and every regular
\* field and element is concrete once defaults are taken.
RECURSIVE IsConcrete(_)
IsConcrete(v) ==
    CASE v.k = "atom" -> TRUE
      [] v.k = "or" -> v.def > 0 /\ IsConcrete(v.bs[v.def])
      [] v.k = "struct" -> \A l \in DOMAIN v.fs : v.fs[l].opt \/ IsConcrete(v.fs[l].v)
      [] v.k = "list" -> \A i \in 1..Len(v.es) : IsConcrete(v.es[i])
      [] OTHER -> FALSE

\* The data a concrete value stands for: defaults taken, optional fields and
\* the open end of a list left out.
RECURSIVE Data(_)
Data(v) ==
    CASE v.k = "or" -> IF v.def > 0 THEN Data(v.bs[v.def]) ELSE v
      [] v.k = "struct" ->
            Struct([l \in {x \in DOMAIN v.fs : ~v.fs[x].opt} |->
                        Field(FALSE, Data(v.fs[l].v))])
      [] v.k = "list" -> List([i \in 1..Len(v.es) |-> Data(v.es[i])])
      [] OTHER -> v

\* Value.Eval
Eval(v) == Data(v)

\* Value.LookupPath(cue.MakePath(cue.Str(label)))
LookupPath(v, label) ==
    IF v.k = "struct" /\ label \in DOMAIN v.fs /\ ~v.fs[label].opt
    THEN v.fs[label].v ELSE NoValue

\* Value.FillPath(cue.MakePath(cue.Str(label)), x)
FillPath(v, label, x) == Unify(v, Struct([l \in {label} |-> Field(FALSE, x)]))

\* Value.List: the elements, or an error when v is no list.
ListOf(v) ==
    IF v.k = "list" THEN [err |-> NoErr, es |-> v.es]
    ELSE [err |-> "not a list", es |-> <<>>]

\* Context.NewList
NewList(es) ==
    IF \E i \in 1..Len(es) : es[i] = Bottom THEN Bottom ELSE List(es)

\* Value.Err
Err(v) == IF v = Bottom THEN "bottom" ELSE NoErr

\* Value.Expr: the operator and its operands.
Expr(v) ==
    IF v.k = "or" THEN [op |-> "OrOp", vals |-> v.bs]
    ELSE [op |-> "NoOp", vals |-> <<v>>]

\* Value.Default: the default and whether one exists. The default of a list
\* is the list closed, and it is reported as existing.
Default(v) ==
    CASE v.k = "or" ->
            IF v.def > 0 THEN [d |-> v.bs[v.def], exist |-> TRUE]
            ELSE [d |-> v, exist |-> FALSE]
      [] v.k = "list" -> [d |-> List(v.es), exist |-> TRUE]
      [] OTHER -> [d |-> v, exist |-> FALSE]

\* Value.Len().Int64(): the length of a closed list; an error for any other value.
LenInt64(v) ==
    IF v.k = "list" /\ ~v.open THEN [n |-> Len(v.es), err |-> NoErr]
    ELSE [n |-> 0, err |-> "not concrete"]

\* a.Subsume(b) == nil: every instance of b is an instance of a.
RECURSIVE Subsumes(_, _)
Subsumes(a, b) ==
    CASE b.k = "bottom" -> TRUE
      [] a.k = "or" -> \E i \in 1..Len(a.bs) : Subsumes(a.bs[i], b)
      [] b.k = "or" -> \A i \in 1..Len(b.bs) : Subsumes(a, b.bs[i])
      [] a.k = "atom" -> a = b
      [] a.k = "type" -> (b.k = "type" /\ a = b) \/ (b.k = "atom" /\ TypeOf(b.v) = a.t)
      [] a.k = "struct" ->
            /\ b.k = "struct"
            /\ \A l \in DOMAIN a.fs :
                \/ a.fs[l].opt /\ l \notin DOMAIN b.fs
                \/ /\ l \in DOMAIN b.fs
                   /\ (b.fs[l].opt => a.fs[l].opt)
                   /\ Subsumes(a.fs[l].v, b.fs[l].v)
      [] a.k = "list" ->
            /\ b.k = "list"
            /\ (b.open => a.open)
            /\ (~a.open => Len(a.es) = Len(b.es))
            /\ \A i \in 1..Len(b.es) :
                Subsumes(IF i <= Len(a.es) THEN a.es[i] ELSE a.ele, b.es[i])
            /\ (a.open /\ b.open => Subsumes(a.ele, b.ele))
      [] OTHER -> FALSE

\* Value.LookupPath(cue.MakePath(cue.AnyIndex)): the element type of an open list.
LookupAnyIndex(v) ==
    CASE v.k = "list" -> IF v.open THEN v.ele ELSE NoValue
      [] v.k = "or" ->
            IF orElement /\ \E i \in 1..Len(v.bs) : v.bs[i].k = "list" /\ v.bs[i].open
            THEN LET i == CHOOSE i \in 1..Len(v.bs) : v.bs[i].k = "list" /\ v.bs[i].open
                 IN  v.bs[i].ele
            ELSE NoValue
      [] OTHER -> NoValue

\* Value.Fields: the labels to iterate, or an error when v is no struct.
Fields(v, optional) ==
    IF v.k = "struct"
    THEN [err |-> NoErr, labels |-> {l \in DOMAIN v.fs : optional \/ ~v.fs[l].opt}]
    ELSE [err |-> "not a struct", labels |-> {}]

\* Resource.Value of a Resource whose Value is no string, and of one that is no JSON.
NotAString == [k |-> "notastring"]
Malformed == [k |-> "malformed"]

\* Context.CompileString of a JSON text, which is modelled by the data it encodes.
CompileString(str) == IF str = Malformed THEN Bottom ELSE str

\* ---- ApplyDefaults ----

\* getBranch taking the first branch of a disjunction without trying the object against it.
getBranch_firstBranch(schemaObj, concretObj) ==
    LET e == Expr(schemaObj)
    IN  IF e.op = "OrOp" THEN [v |-> e.vals[1], err |-> NoErr]
        ELSE [v |-> schemaObj, err |-> NoErr]

getBranch(schemaObj, concretObj) ==
    LET e == Expr(schemaObj)
        fits == {i \in 1..Len(e.vals) : IsConcrete(Unify(e.vals[i], concretObj))}
    IN  IF e.op = "OrOp"
        THEN IF fits # {}
             THEN [v |-> e.vals[CHOOSE i \in fits : \A j \in fits : i <= j], err |-> NoErr]
             ELSE [v |-> schemaObj, err |-> "no branch is found for list"]
        ELSE [v |-> schemaObj, err |-> NoErr]

RECURSIVE applyDefaultHelper(_, _)
RECURSIVE ApplyElements(_, _, _)
RECURSIVE ApplyFields(_, _, _)

\* The body of the loop filling every absent field, the optional ones too.
ApplyField_fillsOptional(input, lable, field) ==
    LET lv == LookupPath(input, lable)
    IN  IF Exists(lv)
        THEN LET res == applyDefaultHelper(lv, field.v)
             IN  IF res.err # NoErr THEN input
                 ELSE FillPath(input, lable, res.v)
        ELSE FillPath(input, lable, Eval(field.v))

\* applyDefaultHelper, case cue.StructKind, the body of the loop for one field.
ApplyField(input, lable, field) ==
    LET lv == LookupPath(input, lable)
    IN  IF Exists(lv)
        THEN LET res == applyDefaultHelper(lv, field.v)
             IN  IF res.err # NoErr THEN input
                 ELSE FillPath(input, lable, res.v)
        ELSE IF ~field.opt THEN FillPath(input, lable, Eval(field.v))
        ELSE input

\* applyDefaultHelper, case cue.StructKind, the loop over the fields of scue.
ApplyFields(labels, input, schema) ==
    IF labels = {} THEN input
    ELSE LET l == CHOOSE l \in labels : TRUE
         IN  ApplyFields(labels \ {l}, ApplyField(input, l, schema.fs[l]), schema)

\* applyDefaultHelper, case cue.ListKind, the loop over the elements of input.
ApplyElements(es, ele, iterlist) ==
    IF es = <<>> THEN [err |-> NoErr, iterlist |-> iterlist]
    ELSE LET Branch(ref) ==
                IF ref.err # NoErr THEN [err |-> ref.err, iterlist |-> iterlist]
                ELSE LET re == applyDefaultHelper(Head(es), ref.v)
                     IN  ApplyElements(Tail(es), ele,
                                       IF re.err = NoErr THEN Append(iterlist, re.v)
                                       ELSE iterlist)
         IN  Branch(getBranch(ele, Head(es)))

applyDefaultHelper(input, schema) ==
    CASE IncompleteKind(schema) = "list" ->
            LET ele == LookupAnyIndex(schema)
            IN  IF Exists(ele)
                THEN IF IncompleteKind(ele) = "bottom"
                     THEN [v |-> input, err |-> "can't get the element of list"]
                     ELSE IF ListOf(input).err # NoErr
                     THEN [v |-> input, err |-> "can't apply defaults for list"]
                     ELSE LET Collected(r) ==
                                IF r.err # NoErr THEN [v |-> input, err |-> r.err]
                                ELSE LET liInstance == NewList(r.iterlist)
                                     IN  IF Err(liInstance) # NoErr
                                         THEN [v |-> input, err |-> Err(liInstance)]
                                         ELSE [v |-> liInstance, err |-> NoErr]
                          IN  Collected(ApplyElements(ListOf(input).es, ele, <<>>))
                ELSE [v |-> Unify(input, schema), err |-> NoErr]
      [] IncompleteKind(schema) = "struct" ->
            LET iter == Fields(schema, TRUE)
            IN  IF iter.err # NoErr THEN [v |-> input, err |-> iter.err]
                ELSE [v |-> ApplyFields(iter.labels, input, schema), err |-> NoErr]
      [] OTHER -> [v |-> Unify(input, schema), err |-> NoErr]

\* cuejson.Marshal and the unescaping of <, > and &: the JSON text, modelled by
\* the data it encodes, or an error for a value that is not concrete.
convertCUEValueToString(inputCUE) ==
    IF IsConcrete(inputCUE) THEN [re |-> Data(inputCUE), err |-> NoErr]
    ELSE [re |-> NoValue, err |-> "cannot marshal"]

Resource(value, name) == [Value |-> value, Name |-> name]

ReturnResource(r, e) == [outcome |-> "return", r |-> r, err |-> e]

\* ApplyDefaults returning the new Resource, not r, when the marshalling fails.
ApplyDefaults_returnsNewOnError(r, schema) ==
    IF r.Value = NotAString
    THEN [outcome |-> "panic", r |-> NoResource, err |-> NoErr]
    ELSE LET rv == CompileString(r.Value)
             Marshalled(re) == ReturnResource(Resource(re.re, ""), re.err)
             Unified(rvUnified) ==
                IF rvUnified.err # NoErr THEN ReturnResource(r, rvUnified.err)
                ELSE Marshalled(convertCUEValueToString(rvUnified.v))
         IN  IF Err(rv) # NoErr THEN ReturnResource(r, Err(rv))
             ELSE Unified(applyDefaultHelper(rv, schema))

ApplyDefaults(r, schema) ==
    IF r.Value = NotAString
    THEN [outcome |-> "panic", r |-> NoResource, err |-> NoErr]
    ELSE LET rv == CompileString(r.Value)
             Marshalled(re) ==
                IF re.err # NoErr THEN ReturnResource(r, re.err)
                ELSE ReturnResource(Resource(re.re, ""), NoErr)
             Unified(rvUnified) ==
                IF rvUnified.err # NoErr THEN ReturnResource(r, rvUnified.err)
                ELSE Marshalled(convertCUEValueToString(rvUnified.v))
         IN  IF Err(rv) # NoErr THEN ReturnResource(r, Err(rv))
             ELSE Unified(applyDefaultHelper(rv, schema))

\* ---- TrimDefaults ----

\* getDefault reporting what Value.Default reports, without looking at the length.
getDefault_noLengthCheck(icue) == Default(icue)

getDefault(icue) ==
    LET def == Default(icue)
        len == LenInt64(def.d)
        e == Expr(icue)
        defaultExist == \E i \in 1..Len(e.vals) :
                            Kind(e.vals[i]) = "list" /\ LenInt64(e.vals[i]).n <= 0
    IN  IF def.exist /\ Kind(def.d) = "list"
        THEN IF len.err # NoErr THEN [d |-> def.d, exist |-> FALSE]
             ELSE IF len.n <= 0
             THEN [d |-> def.d, exist |-> e.op = "OrOp" /\ defaultExist]
             ELSE [d |-> def.d, exist |-> def.exist]
        ELSE [d |-> def.d, exist |-> def.exist]

isCueValueEqual(inputdef, input) ==
    LET d == getDefault(inputdef)
    IN  IF d.exist THEN Subsumes(input, d.d) /\ Subsumes(d.d, input)
        ELSE FALSE

RECURSIVE removeDefaultHelper(_, _)
RECURSIVE TrimFields(_, _, _, _)

\* removeDefaultHelper, case cue.StructKind, the body of the first loop for one field.
TrimField(rv, input, lable, field) ==
    LET lv == LookupPath(input, lable)
    IN  IF Exists(lv)
        THEN LET re == removeDefaultHelper(field.v, lv)
             IN  IF re.err = NoErr /\ ~re.isEqual THEN FillPath(rv, lable, re.v)
                 ELSE rv
        ELSE rv

\* removeDefaultHelper, case cue.StructKind, the first loop.
TrimFields(labels, rv, input, inputdef) ==
    IF labels = {} THEN rv
    ELSE LET l == CHOOSE l \in labels : TRUE
         IN  TrimFields(labels \ {l}, TrimField(rv, input, l, inputdef.fs[l]),
                        input, inputdef)

\* removeDefaultHelper, case cue.StructKind, the second loop: the fields of
\* input that the schema does not have.
RECURSIVE KeepUndeclared(_, _, _)
KeepUndeclared(labels, rv, input) ==
    IF labels = {} THEN rv
    ELSE LET l == CHOOSE l \in labels : TRUE
         IN  KeepUndeclared(labels \ {l}, FillPath(rv, l, input.fs[l].v), input)

\* The body of the loop keeping every element as it is.
TrimElement_keepsElement(ele, e) ==
    LET Branch(ref) == e
    IN  Branch(getBranch(ele, e))

\* removeDefaultHelper, case cue.ListKind, the body of the loop for one element.
TrimElement(ele, e) ==
    LET Branch(ref) ==
            IF ref.err # NoErr THEN e
            ELSE LET re == removeDefaultHelper(ref.v, e)
                 IN  IF re.err = NoErr /\ ~re.isEqual THEN re.v ELSE e
    IN  Branch(getBranch(ele, e))

removeDefaultHelper(inputdef, input) ==
    LET rv == Struct(<<>>)
    IN  CASE IncompleteKind(inputdef) = "struct" ->
                LET iter == Fields(inputdef, TRUE)
                    iter2 == Fields(input, FALSE)
                    Second(rv1) ==
                        IF iter2.err # NoErr
                        THEN [v |-> rv1, isEqual |-> FALSE, err |-> iter2.err]
                        ELSE [v |-> KeepUndeclared(iter2.labels \ iter.labels, rv1, input),
                              isEqual |-> FALSE, err |-> NoErr]
                IN  IF iter.err # NoErr THEN [v |-> rv, isEqual |-> FALSE, err |-> iter.err]
                    ELSE Second(TrimFields(iter.labels, rv, input, inputdef))
          [] IncompleteKind(inputdef) = "list" ->
                IF isCueValueEqual(inputdef, input)
                THEN [v |-> rv, isEqual |-> TRUE, err |-> NoErr]
                ELSE LET ele == LookupAnyIndex(inputdef)
                     IN  IF Exists(ele)
                         THEN IF IncompleteKind(ele) = "bottom" \/ ListOf(input).err # NoErr
                              THEN [v |-> rv, isEqual |-> TRUE, err |-> NoErr]
                              ELSE LET es == ListOf(input).es
                                       Collected(liInstance) ==
                                          [v |-> liInstance, isEqual |-> FALSE,
                                           err |-> Err(liInstance)]
                                   IN  Collected(NewList([i \in 1..Len(es) |->
                                                            TrimElement(ele, es[i])]))
                         ELSE [v |-> input, isEqual |-> FALSE, err |-> NoErr]
          [] OTHER ->
                [v |-> input, isEqual |-> isCueValueEqual(inputdef, input), err |-> NoErr]

TrimDefaults(r, schema) ==
    IF r.Value = NotAString
    THEN [outcome |-> "panic", r |-> NoResource, err |-> NoErr]
    ELSE LET rvInstance == CompileString(r.Value)
             Marshalled(re) ==
                IF re.err # NoErr THEN ReturnResource(r, re.err)
                ELSE ReturnResource(Resource(re.re, ""), NoErr)
             Trimmed(rv) ==
                IF rv.err # NoErr THEN ReturnResource(r, rv.err)
                ELSE Marshalled(convertCUEValueToString(rv.v))
         IN  IF Err(rvInstance) # NoErr THEN ReturnResource(r, Err(rvInstance))
             ELSE Trimmed(removeDefaultHelper(schema, rvInstance))

\* ---- Translate ----

\* What one migration step can come to: an error, or the translated resource
\* with the lacunas of the lens. A step within a sequence is a unification
\* and has no lacunas.
Steps(s) ==
    {[err |-> "migration failed", translated |-> NoResource, lacunas |-> <<>>]}
        \cup {[err |-> NoErr, translated |-> Resource(Atom(a), ""), lacunas |-> ls] :
                a \in {"1", "2"},
                ls \in IF Successor(s) # Nil /\ Version(Successor(s))[1] # Version(s)[1]
                       THEN {<<>>, <<"Dropped">>} ELSE {<<>>}}

\* Translate returning the schema itself, not its successor, after a migration.
Translate_landsOnItself(s, r, step, errSchema) ==
    IF Successor(s) = Nil
    THEN [r |-> r, schema |-> Nil, err |-> NoErr, lacunas |-> <<>>]
    ELSE IF step.err # NoErr
    THEN [r |-> r, schema |-> errSchema, err |-> step.err, lacunas |-> <<>>]
    ELSE [r |-> step.translated, schema |-> s, err |-> NoErr, lacunas |-> step.lacunas]

\* Schema.Translate: one step from s to its successor. errSchema is the schema
\* returned beside an error, which the contract leaves open.
Translate(s, r, step, errSchema) ==
    IF Successor(s) = Nil
    THEN [r |-> r, schema |-> Nil, err |-> NoErr, lacunas |-> <<>>]
    ELSE IF step.err # NoErr
    THEN [r |-> r, schema |-> errSchema, err |-> step.err, lacunas |-> <<>>]
    ELSE [r |-> step.translated, schema |-> Successor(s), err |-> NoErr,
          lacunas |-> step.lacunas]

\* The loop of a translation that returns the resource of the version it
\* stopped at, and that version's schema, when a step fails.
RECURSIVE TranslateLoop_returnsReached(_, _, _, _, _, _, _)
TranslateLoop_returnsReached(cur, r, to, stepOf, acc, from, orig) ==
    IF Version(cur) = to \/ Successor(cur) = Nil
    THEN [r |-> r, schema |-> cur, lacunas |-> acc, err |-> NoErr]
    ELSE LET Stepped(t) ==
                IF t.err # NoErr
                THEN [r |-> r, schema |-> cur, lacunas |-> acc, err |-> t.err]
                ELSE TranslateLoop_returnsReached(t.schema, t.r, to, stepOf,
                                                  acc \o t.lacunas, from, orig)
         IN  Stepped(Translate(cur, r, stepOf[cur], Nil))

\* The loop of a translation to the version to: single steps from cur until
\* to is reached or there is no successor, acc being the lacunas so far. A
\* failed step gives up with the resource orig and the schema from the call began with.
RECURSIVE TranslateLoop(_, _, _, _, _, _, _)
TranslateLoop(cur, r, to, stepOf, acc, from, orig) ==
    IF Version(cur) = to \/ Successor(cur) = Nil
    THEN [r |-> r, schema |-> cur, lacunas |-> acc, err |-> NoErr]
    ELSE LET Stepped(t) ==
                IF t.err # NoErr
                THEN [r |-> orig, schema |-> from, lacunas |-> acc, err |-> t.err]
                ELSE TranslateLoop(t.schema, t.r, to, stepOf, acc \o t.lacunas, from, orig)
         IN  Stepped(Translate(cur, r, stepOf[cur], Nil))

\* Translation of r from the schema s to the version to.
TranslateTo(s, r, to, stepOf) == TranslateLoop(s, r, to, stepOf, <<>>, s, r)

\* ---- the state machine ----

Majors == 0..MaxSeqs

Minors == 0..MaxMinors

Constructors ==
    {Latest, LatestInCurrentMajor}
        \cup {LatestInMajor(m) : m \in Majors}
        \cup {Exact(m, n) : m \in Majors, n \in Minors}

Options == UNION {[1..k -> Constructors] : k \in 0..MaxOpts}

Init ==
    /\ lineage \in Lineages
    /\ op = "none"
    /\ start = Nil
    /\ opt = <<>>
    /\ resource = <<>>
    /\ outcome = "none"
    /\ result = Nil
    /\ err = NoErr
    /\ visited = <<>>
    /\ array = <<>>
    /\ scue = NoValue
    /\ rin = NoResource
    /\ rout = NoResource
    /\ lacunas = <<>>
    /\ target = <<>>
    /\ steps = <<>>
    /\ candidate = NoCandidate
    /\ HarnessIdle
    /\ dflt = NoValue
    /\ orElement = FALSE

CallFind ==
    /\ op = "none"
    /\ \E s \in Schemas \cup {Nil}, os \in Options :
        LET r == Find(s, os)
        IN  /\ op' = "Find"
            /\ start' = s
            /\ opt' = os
            /\ resource' = <<>>
            /\ outcome' = r.outcome
            /\ result' = r.result
            /\ err' = NoErr
            /\ visited' = <<>>
            /\ UNCHANGED <<lineage, array, lacunas, valueVars, translateVars, harnessVars>>

CallSearchAndValidate ==
    /\ op = "none"
    /\ \E s \in Schemas \cup {Nil}, v \in [Schemas -> Diagnostics \cup {NoErr}] :
        LET r == SearchAndValidate(s, v)
        IN  /\ op' = "SearchAndValidate"
            /\ start' = s
            /\ opt' = <<>>
            /\ resource' = v
            /\ outcome' = r.outcome
            /\ result' = r.result
            /\ err' = r.err
            /\ visited' = r.visited
            /\ UNCHANGED <<lineage, array, lacunas, valueVars, translateVars, harnessVars>>

CallAsArray ==
    /\ op = "none"
    /\ \E s \in Schemas \cup {Nil} :
        LET a == AsArray(s)
        IN  /\ op' = "AsArray"
            /\ start' = s
            /\ outcome' = IF a.panic THEN "panic" ELSE "return"
            /\ array' = IF a.panic THEN <<>> ELSE a.arr
            /\ UNCHANGED <<lineage, opt, resource, result, err, visited, lacunas,
                           valueVars, translateVars, harnessVars>>

CallTranslate ==
    /\ op = "none"
    /\ \E s \in Schemas, name \in {"", "dashboard"} :
        \E step \in Steps(s), errSchema \in {Nil, s} :
            \E t \in {Translate(s, Resource(Atom("1"), name), step, errSchema)} :
                /\ op' = "Translate"
                /\ start' = s
                /\ rin' = Resource(Atom("1"), name)
                /\ outcome' = "return"
                /\ rout' = t.r
                /\ result' = t.schema
                /\ err' = t.err
                /\ lacunas' = t.lacunas
                /\ UNCHANGED <<lineage, opt, resource, visited, array, scue, dflt, orElement,
                               translateVars, harnessVars>>

Next == CallFind \/ CallSearchAndValidate \/ CallAsArray \/ CallTranslate

Spec == Init /\ [][Next]_vars

\* ---- translation to a version ----

\* Lineages of up to MaxBoundaries + 1 sequences.
TranslateLineages ==
    {Flat(sizes, 1) : sizes \in UNION {[1..k -> 1..MaxMinors] : k \in 1..(MaxBoundaries + 1)}}

\* The resource a step lands on the schema s with.
Translated(s) == Resource([k |-> "translated", to |-> Version(s)], "")

\* What the step from the schema s comes to when the step from failAt fails
\* and the lenses into the majors of lensLacunas report a lacuna.
StepFrom(s, failAt, lensLacunas) ==
    IF s = failAt
    THEN [err |-> "migration failed", translated |-> NoResource, lacunas |-> <<>>]
    ELSE IF Successor(s) = Nil
    THEN [err |-> NoErr, translated |-> NoResource, lacunas |-> <<>>]
    ELSE [err |-> NoErr, translated |-> Translated(Successor(s)),
          lacunas |-> IF /\ Version(Successor(s))[1] # Version(s)[1]
                         /\ Version(Successor(s))[1] \in lensLacunas
                      THEN <<[type |-> "Dropped", lens |-> Version(Successor(s))[1]]>>
                      ELSE <<>>]

TranslateInit ==
    /\ lineage \in TranslateLineages
    /\ op = "none"
    /\ start = Nil
    /\ opt = <<>>
    /\ resource = <<>>
    /\ outcome = "none"
    /\ result = Nil
    /\ err = NoErr
    /\ visited = <<>>
    /\ array = <<>>
    /\ scue = NoValue
    /\ rin = NoResource
    /\ rout = NoResource
    /\ lacunas = <<>>
    /\ target = <<>>
    /\ steps = <<>>
    /\ candidate = NoCandidate
    /\ HarnessIdle
    /\ dflt = NoValue
    /\ orElement = FALSE

CallTranslateTo ==
    /\ op = "none"
    /\ \E s \in Schemas, failAt \in Schemas \cup {Nil}, lensLacunas \in SUBSET (1..MaxBoundaries) :
        \E to \in {Version(u) : u \in s..Len(lineage)} :
            \E t \in {TranslateTo(s, Resource(Atom("1"), "dashboard"), to,
                                  [u \in Schemas |-> StepFrom(u, failAt, lensLacunas)])} :
                /\ op' = "TranslateTo"
                /\ start' = s
                /\ target' = to
                /\ steps' = [u \in Schemas |-> StepFrom(u, failAt, lensLacunas)]
                /\ rin' = Resource(Atom("1"), "dashboard")
                /\ outcome' = "return"
                /\ rout' = t.r
                /\ result' = t.schema
                /\ err' = t.err
                /\ lacunas' = t.lacunas
                /\ UNCHANGED <<lineage, opt, resource, visited, array, scue, dflt, orElement,
                               candidate, harnessVars>>

TranslateNext == CallTranslateTo

TranslateSpec == TranslateInit /\ [][TranslateNext]_vars

\* ---- binding a lineage ----

\* {a: string}, {a: string, b: int}, {a: string, b?: int}, {a: string, b: int | *1}
LineageSchemas ==
    {Struct([l \in {"a"} |-> Field(FALSE, Type("string"))])}
        \cup {Struct([l \in {"a", "b"} |->
                        IF l = "a" THEN Field(FALSE, Type("string")) ELSE f]) :
                f \in {Field(FALSE, Type("int")), Field(TRUE, Type("int")),
                       Field(FALSE, Or(<<Type("int"), Atom("1")>>, 2))}}

\* The instances schemas are compared on.
Instances ==
    {Struct(fs) : fs \in UNION {[ls -> {Field(FALSE, Atom(v)) : v \in {"x", "1"}}] :
                                    ls \in SUBSET {"a", "b"}}}

\* The instance x is valid under the schema sch of a lineage, which is closed:
\* x has no field that sch does not declare.
ValidInstance(x, sch) ==
    /\ DOMAIN x.fs \subseteq DOMAIN sch.fs
    /\ IsConcrete(Unify(x, sch))

\* new is backwards compatible with old: every instance valid under old is
\* valid under new.
BackwardsCompatible(new, old) ==
    \A x \in Instances : ValidInstance(x, old) => ValidInstance(x, new)

\* The lineage sources handed to the validator: sequences of schemas, and the
\* sequences (by index) that declare their lenses.
SequencesOver(S) == UNION {[1..n -> S] : n \in 0..MaxMinors}

Candidates ==
    UNION {[name : {"", "thing"}, seqs : [1..k -> SequencesOver(LineageSchemas)],
            lenses : SUBSET (2..k)] : k \in 0..MaxSeqs}

\* The validator without the check of the sequence boundaries.
BindLineage_skipsBoundaries(c) ==
    LET n == Len(c.seqs)
    IN  IF c.name = "" THEN [err |-> "MissingName", lin |-> <<>>]
        ELSE IF n = 0 THEN [err |-> "EmptySequences", lin |-> <<>>]
        ELSE IF \E i \in 1..n : c.seqs[i] = <<>> THEN [err |-> "EmptySchemas", lin |-> <<>>]
        ELSE IF \E i \in 1..n : \E j \in 1..(Len(c.seqs[i]) - 1) :
                    ~BackwardsCompatible(c.seqs[i][j + 1], c.seqs[i][j])
        THEN [err |-> "IncompatibleSuccessor", lin |-> <<>>]
        ELSE IF \E i \in 2..n : i \notin c.lenses
        THEN [err |-> "MissingLens", lin |-> <<>>]
        ELSE [err |-> NoErr, lin |-> Flat([i \in 1..n |-> Len(c.seqs[i])], 1)]

\* The validator run by binding: the structure, the compatibility of every
\* adjacent pair within a sequence, the incompatibility at every sequence
\* boundary, the lenses. Versions are assigned by position.
BindLineage(c) ==
    LET n == Len(c.seqs)
    IN  IF c.name = "" THEN [err |-> "MissingName", lin |-> <<>>]
        ELSE IF n = 0 THEN [err |-> "EmptySequences", lin |-> <<>>]
        ELSE IF \E i \in 1..n : c.seqs[i] = <<>> THEN [err |-> "EmptySchemas", lin |-> <<>>]
        ELSE IF \E i \in 1..n : \E j \in 1..(Len(c.seqs[i]) - 1) :
                    ~BackwardsCompatible(c.seqs[i][j + 1], c.seqs[i][j])
        THEN [err |-> "IncompatibleSuccessor", lin |-> <<>>]
        ELSE IF \E i \in 1..(n - 1) :
                    BackwardsCompatible(c.seqs[i + 1][1], c.seqs[i][Len(c.seqs[i])])
        THEN [err |-> "NonBreakingSequenceBoundary", lin |-> <<>>]
        ELSE IF \E i \in 2..n : i \notin c.lenses
        THEN [err |-> "MissingLens", lin |-> <<>>]
        ELSE [err |-> NoErr, lin |-> Flat([i \in 1..n |-> Len(c.seqs[i])], 1)]

BindInit ==
    /\ lineage = <<>>
    /\ op = "none"
    /\ start = Nil
    /\ opt = <<>>
    /\ resource = <<>>
    /\ outcome = "none"
    /\ result = Nil
    /\ err = NoErr
    /\ visited = <<>>
    /\ array = <<>>
    /\ scue = NoValue
    /\ rin = NoResource
    /\ rout = NoResource
    /\ lacunas = <<>>
    /\ target = <<>>
    /\ steps = <<>>
    /\ candidate = NoCandidate
    /\ HarnessIdle
    /\ dflt = NoValue
    /\ orElement = FALSE

CallBindLineage ==
    /\ op = "none"
    /\ \E c \in Candidates :
        \E b \in {BindLineage(c)} :
            /\ op' = "BindLineage"
            /\ candidate' = c
            /\ outcome' = "return"
            /\ err' = b.err
            /\ lineage' = b.lin
            /\ UNCHANGED <<start, opt, resource, result, visited, array, lacunas, target,
                           steps, valueVars, harnessVars>>

BindNext == CallBindLineage

BindSpec == BindInit /\ [][BindNext]_vars

\* ---- the txtar harness (internal/txtartest) ----

\* A file name is the sequence of its components: out/t is <<"out", "t">>.
\* prefix is path.Join("out", x.Name) for the test named t.
prefix == <<"out", "t">>

\* path.Clean on the components: "." is dropped, ".." removes the component
\* before it (and stays when there is none); the empty path is ".".
RECURSIVE CleanFrom(_, _)
CleanFrom(parts, done) ==
    IF parts = <<>> THEN (IF done = <<>> THEN <<".">> ELSE done)
    ELSE IF Head(parts) = "." THEN CleanFrom(Tail(parts), done)
    ELSE IF Head(parts) = ".." /\ done # <<>> /\ done[Len(done)] # ".."
    THEN CleanFrom(Tail(parts), SubSeq(done, 1, Len(done) - 1))
    ELSE CleanFrom(Tail(parts), Append(done, Head(parts)))

Clean(parts) == CleanFrom(parts, <<>>)

\* path.Join: the elements joined by slashes, cleaned.
Join(dir, name) == Clean(dir \o name)

\* strings.HasPrefix(name, p), for names none of whose components extends
\* a component of another.
HasPrefix(name, p) == Len(name) >= Len(p) /\ SubSeq(name, 1, Len(p)) = p

\* The order of the components as strings, and of the names as strings.
Rank(c) ==
    CASE c = "." -> 0 [] c = ".." -> 1 [] c = "a" -> 2 [] c = "b" -> 3
      [] c = "in" -> 4 [] c = "out" -> 5 [] c = "t" -> 6

RECURSIVE NameLess(_, _)
NameLess(x, y) ==
    IF y = <<>> THEN FALSE
    ELSE IF x = <<>> THEN TRUE
    ELSE IF Head(x) # Head(y) THEN Rank(Head(x)) < Rank(Head(y))
    ELSE NameLess(Tail(x), Tail(y))

Bytes == {"x", "y"}

\* The names the test function asks Writer for: "", ".", "a", "./a", "a/..", "b".
WriterNames == {<<>>, <<".">>, <<"a">>, <<".", "a">>, <<"a", "..">>, <<"b">>}

\* The archives: an input file, and the golden files of an earlier run.
GoldenFile(name) == [Name |-> name, Data |-> <<"x">>]

Archives ==
    {<<GoldenFile(<<"in">>)>> \o main \o sub :
        main \in {<<>>, <<GoldenFile(prefix)>>},
        sub \in {<<>>, <<GoldenFile(prefix \o <<"a">>)>>}}

\* bytes.Buffer.Write on the buffer at the address w.
BufferWrite(h, w, b) == [h EXCEPT ![w] = Append(@, b)]

\* Test.Write: the default buffer is allocated and entered in outFiles under
\* the prefix when there is none yet.
Write(t, h, b) ==
    IF t.buf = Nil
    THEN LET w == Len(h) + 1
         IN  [t |-> [t EXCEPT !.buf = w,
                              !.outFiles = Append(@, [name |-> prefix, buf |-> w])],
              h |-> BufferWrite(Append(h, <<>>), w, b)]
    ELSE [t |-> t, h |-> BufferWrite(h, t.buf, b)]

\* Test.Writer without the assignment of the default buffer.
Writer_keepsDefault(t, h, name) ==
    LET full == IF name = <<>> THEN prefix ELSE Join(prefix, name)
        found == {i \in DOMAIN t.outFiles : t.outFiles[i].name = full}
    IN  IF found # {}
        THEN [t |-> t, h |-> h, name |-> full,
              w |-> t.outFiles[CHOOSE i \in found : \A j \in found : i <= j].buf]
        ELSE LET w == Len(h) + 1
             IN  [t |-> [t EXCEPT !.outFiles = Append(@, [name |-> full, buf |-> w])],
                  h |-> Append(h, <<>>), name |-> full, w |-> w]

\* Test.Writer: the buffer of the first entry of outFiles with the joined
\* name, or a new buffer entered under it, which becomes the default buffer
\* when the name is the prefix.
Writer(t, h, name) ==
    LET full == IF name = <<>> THEN prefix ELSE Join(prefix, name)
        found == {i \in DOMAIN t.outFiles : t.outFiles[i].name = full}
    IN  IF found # {}
        THEN [t |-> t, h |-> h, name |-> full,
              w |-> t.outFiles[CHOOSE i \in found : \A j \in found : i <= j].buf]
        ELSE LET w == Len(h) + 1
             IN  [t |-> [t EXCEPT !.outFiles = Append(@, [name |-> full, buf |-> w]),
                                  !.buf = IF full = prefix THEN w ELSE @],
                  h |-> Append(h, <<>>), name |-> full, w |-> w]

\* index[name] of Run: the last file of the archive with that name.
IndexOf(files, name) ==
    CHOOSE i \in DOMAIN files :
        /\ files[i].Name = name
        /\ \A j \in DOMAIN files : files[j].Name = name => j <= i

NamesOf(files) == {files[i].Name : i \in DOMAIN files}

\* The place the results are inserted at: that of the first output file
\* found in the archive, or the end (as a count of the files before it).
InsertAt(files, outFiles) ==
    LET found == {i \in DOMAIN outFiles : outFiles[i].name \in NamesOf(files)}
    IN  IF found = {} THEN Len(files)
        ELSE IndexOf(files, outFiles[CHOOSE i \in found : \A j \in found : i <= j].name) - 1

\* Run's walk over the output files from the i-th on. st holds files, index and
\* indexthis (as the names still in them), failed, logs and update.
RECURSIVE Compare(_, _, _, _, _, _)
Compare(i, outFiles, h, a, allow, st) ==
    IF i > Len(outFiles) THEN st
    ELSE LET sub == outFiles[i]
             res == h[sub.buf]
             inIndex == sub.name \in st.index
             gold == IF inIndex THEN a[IndexOf(a, sub.name)].Data ELSE <<>>
             seen == [st EXCEPT !.index = @ \ {sub.name}, !.indexthis = @ \ {sub.name}]
             With(data, s2) ==
                Compare(i + 1, outFiles, h, a, allow,
                        [s2 EXCEPT !.files = Append(@, [Name |-> sub.name, Data |-> data])])
         IN  IF inIndex /\ gold = res THEN With(gold, seen)
             ELSE IF ~inIndex /\ ~allow /\ ~UpdateGoldenFiles
             THEN With(gold, [seen EXCEPT !.failed = TRUE,
                                          !.logs = @ \cup {<<"does not exist", sub.name>>}])
             ELSE IF UpdateGoldenFiles
             THEN With(res, [seen EXCEPT !.update = TRUE])
             ELSE With(gold, [seen EXCEPT !.failed = TRUE,
                                          !.logs = @ \cup {<<"differs", sub.name>>}])

\* The files of a[k+1..] still in the index, appended to files.
RECURSIVE Remaining(_, _, _, _)
Remaining(a, k, index, files) ==
    IF k >= Len(a) THEN files
    ELSE Remaining(a, k + 1, index,
                   IF a[k + 1].Name \in index THEN Append(files, a[k + 1]) ELSE files)

\* The files whose name is not in gone, in their order.
RECURSIVE Filtered(_, _)
Filtered(files, gone) ==
    IF files = <<>> THEN <<>>
    ELSE (IF Head(files).Name \in gone THEN <<>> ELSE <<Head(files)>>)
            \o Filtered(Tail(files), gone)

\* sort.Slice by name: every order of the files that is sorted (the order of
\* files of the same name is not determined).
RECURSIVE SortSlice(_)
SortSlice(files) ==
    IF files = <<>> THEN {<<>>}
    ELSE LET least == {i \in DOMAIN files :
                        \A j \in DOMAIN files : ~NameLess(files[j].Name, files[i].Name)}
             Without(i) == SubSeq(files, 1, i - 1) \o SubSeq(files, i + 1, Len(files))
         IN  UNION {{<<files[i]>> \o rest : rest \in SortSlice(Without(i))} : i \in least}

\* Run after the test function returned: the comparison of the output files
\* with the archive, up to the decision to rewrite the archive file.
Compared(t, h, a) ==
    LET k == InsertAt(a, t.outFiles)
        st == Compare(1, t.outFiles, h, a, t.AllowFilesetDivergence,
                      [files |-> SubSeq(a, 1, k), index |-> NamesOf(a),
                       indexthis |-> {n \in NamesOf(a) : HasPrefix(n, prefix)},
                       failed |-> FALSE, logs |-> {}, update |-> FALSE])
        Diverged(files) ==
            IF ~t.AllowFilesetDivergence /\ st.indexthis # {}
            THEN IF ~UpdateGoldenFiles
                 THEN [files |-> files, failed |-> TRUE, update |-> st.update,
                       logs |-> st.logs \cup {<<"not generated", n>> : n \in st.indexthis}]
                 ELSE [files |-> Filtered(files, st.indexthis), failed |-> st.failed,
                       update |-> TRUE, logs |-> st.logs]
            ELSE [files |-> files, failed |-> st.failed, update |-> st.update,
                  logs |-> st.logs]
    IN  Diverged(Remaining(a, k, st.index, st.files))

HarnessInit ==
    /\ lineage = <<>>
    /\ op = "none"
    /\ start = Nil
    /\ opt = <<>>
    /\ resource = <<>>
    /\ outcome = "none"
    /\ result = Nil
    /\ err = NoErr
    /\ visited = <<>>
    /\ array = <<>>
    /\ scue = NoValue
    /\ rin = NoResource
    /\ rout = NoResource
    /\ lacunas = <<>>
    /\ target = <<>>
    /\ steps = <<>>
    /\ candidate = NoCandidate
    /\ dflt = NoValue
    /\ orElement = FALSE
    /\ tc \in {NewTest(allow) : allow \in BOOLEAN}
    /\ heap = <<>>
    /\ archive \in Archives
    /\ golden = archive
    /\ UpdateGoldenFiles \in BOOLEAN
    /\ handed = {}
    /\ sent = <<>>
    /\ calls = 0
    /\ failed = FALSE
    /\ logs = {}
    /\ saved = FALSE

restVars == <<lineage, start, opt, resource, outcome, result, err, visited, array, lacunas,
              valueVars, translateVars, golden>>

\* The test function calls t.Write(b).
CallWrite ==
    /\ op # "Run"
    /\ calls < MaxCalls
    /\ \E b \in Bytes :
        \E r \in {Write(tc, heap, b)} :
            /\ op' = "Write"
            /\ tc' = r.t
            /\ heap' = r.h
            /\ sent' = Append(sent, <<prefix, b>>)
            /\ calls' = calls + 1
            /\ UNCHANGED <<restVars, archive, UpdateGoldenFiles, handed, failed, logs, saved>>

\* The test function calls t.Writer(name) and keeps the writer.
CallWriter ==
    /\ op # "Run"
    /\ calls < MaxCalls
    /\ \E name \in WriterNames :
        \E r \in {Writer(tc, heap, name)} :
            /\ op' = "Writer"
            /\ tc' = r.t
            /\ heap' = r.h
            /\ handed' = handed \cup {<<name, r.name, r.w>>}
            /\ calls' = calls + 1
            /\ UNCHANGED <<restVars, archive, UpdateGoldenFiles, sent, failed, logs, saved>>

\* The test function writes to a writer that Writer returned.
WriteToWriter ==
    /\ op # "Run"
    /\ calls < MaxCalls
    /\ \E w \in handed, b \in Bytes :
            /\ op' = "WriteTo"
            /\ heap' = BufferWrite(heap, w[3], b)
            /\ sent' = Append(sent, <<w[2], b>>)
            /\ calls' = calls + 1
            /\ UNCHANGED <<restVars, tc, archive, UpdateGoldenFiles, handed, failed, logs,
                           saved>>

\* The test function returned: Run compares the output with the archive.
FinishRun ==
    /\ op # "Run"
    /\ \E r \in {Compared(tc, heap, archive)} :
        /\ op' = "Run"
        /\ failed' = r.failed
        /\ logs' = r.logs
        /\ saved' = r.update
        /\ archive' \in (IF r.update THEN SortSlice(r.files) ELSE {r.files})
        /\ UNCHANGED <<restVars, tc, heap, UpdateGoldenFiles, handed, sent, calls>>

HarnessNext == CallWrite \/ CallWriter \/ WriteToWriter \/ FinishRun

HarnessSpec == HarnessInit /\ [][HarnessNext]_vars

\* ---- ApplyDefaults, TrimDefaults and getDefault on small schemas ----

IntType == Type("int")

\* int | *1
IntDefault == Or(<<Type("int"), Atom("1")>>, 2)

Leaves == {IntType, IntDefault}

One(label, field) == [l \in {label} |-> field]

\* {c: ...}, {c?: ...}
InnerStructs == {Struct(One("c", Field(o, v))) : o \in BOOLEAN, v \in Leaves}

\* {k: "x", d: int | *1} | {k: "y"}
BranchX == Struct([l \in {"k", "d"} |->
                    IF l = "k" THEN Field(FALSE, Atom("x")) ELSE Field(FALSE, IntDefault)])

BranchY == Struct(One("k", Field(FALSE, Atom("y"))))

ElemOr == Or(<<BranchX, BranchY>>, 0)

Elems == Leaves \cup {ElemOr, Struct(One("c", Field(FALSE, IntDefault))), OpenList(ElemOr)}

\* The lists over elements of a set, up to MaxListLen long.
ListsOver(S) == UNION {{List(es) : es \in [1..n -> S]} : n \in 0..MaxListLen}

OrElemData ==
    {Struct(One("k", Field(FALSE, Atom(a)))) : a \in {"x", "y", "2"}}
        \cup {Struct([l \in {"k", "d"} |->
                        Field(FALSE, Atom(IF l = "k" THEN "x" ELSE a))]) : a \in {"1", "2"}}

\* The data tried as elements of a list whose element type is ele.
ElemData(ele) ==
    CASE ele \in Leaves -> {Atom("1"), Atom("2"), Atom("x")}
      [] ele = ElemOr -> OrElemData
      [] ele.k = "struct" ->
            {Struct(<<>>)} \cup {Struct(One("c", Field(FALSE, Atom(a)))) : a \in {"1", "2"}}
      [] OTHER -> {List(<<>>)} \cup {List(<<e>>) : e \in OrElemData}

\* [...ele], and for lists of int: [...int] | *[], [...int] | *[1], [...int] | [1], [1], []
ListSchemas(ele) ==
    {OpenList(ele)}
        \cup (IF ele = IntType
              THEN {Or(<<OpenList(ele), List(<<>>)>>, 2),
                    Or(<<OpenList(ele), List(<<Atom("1")>>)>>, 2),
                    Or(<<OpenList(ele), List(<<Atom("1")>>)>>, 0),
                    List(<<Atom("1")>>), List(<<>>)}
              ELSE {})

ListCases ==
    UNION {{<<sch, x>> : sch \in ListSchemas(ele),
                         x \in ListsOver(ElemData(ele)) \cup {Atom("x")}} : ele \in Elems}

\* {l: list} and {l?: list}, with and without l in the input.
ListFieldCases ==
    {<<Struct(One("l", Field(o, c[1]))), Struct(One("l", Field(FALSE, c[2])))>> :
        o \in BOOLEAN, c \in ListCases}
        \cup {<<Struct(One("l", Field(o, c[1]))), Struct(<<>>)>> : o \in BOOLEAN, c \in ListCases}

\* The fields a struct may have: any subset of the labels, each with a value of its choice.
FieldsOver(choices) ==
    UNION {{[l \in ls |-> f[l]] : f \in [ls -> UNION {choices[l] : l \in ls}]} :
            ls \in SUBSET DOMAIN choices}

WellChosen(fs, choices) == \A l \in DOMAIN fs : fs[l] \in choices[l]

StructSchemas ==
    LET choices == [l \in {"a", "s"} |->
                        IF l = "a" THEN {Field(o, v) : o \in BOOLEAN, v \in Leaves}
                        ELSE {Field(o, v) : o \in BOOLEAN, v \in InnerStructs}]
    IN  {Struct(fs) : fs \in {f \in FieldsOver(choices) : WellChosen(f, choices)}}

StructData ==
    LET choices == [l \in {"a", "s", "z"} |->
                        CASE l = "a" -> {Field(FALSE, Atom(a)) : a \in {"1", "2", "x"}}
                          [] l = "s" -> {Field(FALSE, v) : v \in ElemData(Struct(<<>>)) \cup {Atom("x")}}
                          [] OTHER -> {Field(FALSE, Atom("1"))}]
    IN  {Struct(fs) : fs \in {f \in FieldsOver(choices) : WellChosen(f, choices)}}

StructCases == StructSchemas \X (StructData \cup {Atom("1")})

LeafCases == Leaves \X {Atom("1"), Atom("2"), Atom("x")}

\* <<schema, Resource.Value>>
Cases ==
    StructCases \cup ListCases \cup ListFieldCases \cup LeafCases
        \cup {<<IntType, Malformed>>, <<IntType, NotAString>>}

Names == {"", "dashboard"}

DefaultsInit ==
    /\ lineage = Flat(<<1>>, 1)
    /\ op = "none"
    /\ start = Nil
    /\ opt = <<>>
    /\ resource = <<>>
    /\ outcome = "none"
    /\ result = Nil
    /\ err = NoErr
    /\ visited = <<>>
    /\ array = <<>>
    /\ scue = NoValue
    /\ rin = NoResource
    /\ rout = NoResource
    /\ lacunas = <<>>
    /\ target = <<>>
    /\ steps = <<>>
    /\ candidate = NoCandidate
    /\ HarnessIdle
    /\ dflt = NoValue
    /\ orElement \in BOOLEAN

lineageVars == <<lineage, start, opt, resource, result, visited, array, lacunas,
                 translateVars, harnessVars>>

CallApplyDefaults ==
    /\ op = "none"
    /\ \E c \in Cases, name \in Names :
        \E r \in {ApplyDefaults(Resource(c[2], name), c[1])} :
            /\ op' = "ApplyDefaults"
            /\ scue' = c[1]
            /\ rin' = Resource(c[2], name)
            /\ outcome' = r.outcome
            /\ rout' = r.r
            /\ err' = r.err
            /\ UNCHANGED <<lineageVars, dflt, orElement>>

CallTrimDefaults ==
    /\ op = "none"
    /\ \E c \in Cases, name \in Names :
        \E r \in {TrimDefaults(Resource(c[2], name), c[1])} :
            /\ op' = "TrimDefaults"
            /\ scue' = c[1]
            /\ rin' = Resource(c[2], name)
            /\ outcome' = r.outcome
            /\ rout' = r.r
            /\ err' = r.err
            /\ UNCHANGED <<lineageVars, dflt, orElement>>

CallGetDefault ==
    /\ op = "none"
    /\ \E icue \in {c[1] : c \in Cases} \cup {c[2] : c \in ListCases} :
        /\ op' = "getDefault"
        /\ scue' = icue
        /\ outcome' = "return"
        /\ dflt' = getDefault(icue)
        /\ UNCHANGED <<lineageVars, rin, rout, err, orElement>>

DefaultsNext == CallApplyDefaults \/ CallTrimDefaults \/ CallGetDefault

DefaultsSpec == DefaultsInit /\ [][DefaultsNext]_vars

\* ---- helpers of the properties ----

\* The schemas reachable from s by Successor(), s included.
RECURSIVE Reach(_)
Reach(s) == IF s = Nil THEN {} ELSE {s} \cup Reach(Successor(s))

VersionLess(a, b) == a[1] < b[1] \/ (a[1] = b[1] /\ a[2] < b[2])

TopMajor == Version(Last)[1]

\* The schema with major m and the highest minor, Nil when no schema has major m.
HighestMinorIn(m) ==
    IF \E t \in Schemas : Version(t)[1] = m
    THEN CHOOSE t \in Schemas :
            /\ Version(t)[1] = m
            /\ \A u \in Schemas : Version(u)[1] = m => Version(u)[2] <= Version(t)[2]
    ELSE Nil

\* The criteria an option selects.
Criteria(os) == {os[k].kind : k \in 1..Len(os)}

FindCalled == op = "Find"

SearchCalled == op = "SearchAndValidate"

\* The schemas reachable from s, newest first.
RECURSIVE NewestFirst(_)
NewestFirst(s) == IF s = Nil THEN <<>> ELSE NewestFirst(Successor(s)) \o <<s>>

\* The prefix of ss up to and including the first schema that accepts v.
RECURSIVE UpToFirstAccepting(_, _)
UpToFirstAccepting(ss, v) ==
    IF ss = <<>> THEN <<>>
    ELSE IF Validate(Head(ss), v) = NoErr THEN <<Head(ss)>>
    ELSE <<Head(ss)>> \o UpToFirstAccepting(Tail(ss), v)

\* The diagnostics an error value carries.
ErrorMessages(e) == IF e = NoErr THEN {} ELSE {e}

AsArrayCalled == op = "AsArray"

\* The schemas held by a two-dimensional array.
Held(arr) == UNION {{arr[i][j] : j \in 1..Len(arr[i])} : i \in 1..Len(arr)}

ApplyCalled == op = "ApplyDefaults" /\ outcome = "return"

TrimCalled == op = "TrimDefaults" /\ outcome = "return"

\* A call that returned a nil error for a struct schema and a struct input.
StructCall == err = NoErr /\ scue.k = "struct" /\ rin.Value.k = "struct"

\* The fields of the struct schema sch in the output out for the input x:
\* absent and non-optional is filled with the default, absent and optional
\* stays absent, present is kept.
FieldsFilled(out, x, sch) ==
    \A l \in DOMAIN sch.fs :
        IF l \in DOMAIN x.fs THEN l \in DOMAIN out.fs
        ELSE IF ~sch.fs[l].opt
        THEN l \in DOMAIN out.fs /\ out.fs[l].v = Data(sch.fs[l].v)
        ELSE l \notin DOMAIN out.fs

\* The fields of x that the struct schema sch declares as structs and x holds as structs.
NestedStructs(x, sch) ==
    {l \in DOMAIN sch.fs \cap DOMAIN x.fs :
        sch.fs[l].v.k = "struct" /\ x.fs[l].v.k = "struct"}

\* The instance x is valid under the schema sch: Schema.Validate unifies the
\* two and requires the result to be concrete.
ValidUnder(x, sch) ==
    /\ x.k \in {"atom", "struct", "list"}
    /\ IsConcrete(Unify(x, sch))

\* The value x equals the default of the schema field sch, by mutual subsumption.
EqualsDefault(x, sch) ==
    /\ getDefault(sch).exist
    /\ Subsumes(x, getDefault(sch).d)
    /\ Subsumes(getDefault(sch).d, x)

\* The element o of the output for the element e of the input, ele being the
\* element type: e as it is when no branch of ele matches it or when it equals
\* the default of its branch, and e trimmed against its branch otherwise.
ElementTrimmed(o, e, ele) ==
    IF getBranch(ele, e).err # NoErr \/ EqualsDefault(e, getBranch(ele, e).v)
    THEN o = e
    ELSE o = Data(removeDefaultHelper(getBranch(ele, e).v, e).v)

\* The output list out for the input list x that is not the default of the
\* list schema sch: as long as x, every element trimmed in its place.
ListTrimmed(out, x, sch) ==
    IF ~Exists(LookupAnyIndex(sch)) THEN out = x
    ELSE /\ out.k = "list"
         /\ Len(out.es) = Len(x.es)
         /\ \A i \in 1..Len(x.es) : ElementTrimmed(out.es[i], x.es[i], LookupAnyIndex(sch))

\* The fields that the struct schema sch declares as lists and x holds as lists.
NestedLists(x, sch) ==
    {l \in DOMAIN sch.fs \cap DOMAIN x.fs :
        IncompleteKind(sch.fs[l].v) = "list" /\ x.fs[l].v.k = "list"}

GetDefaultCalled == op = "getDefault"

\* The error of the recursive step of the call in progress on the value x
\* with the schema sch.
StepErr(x, sch) ==
    IF op = "ApplyDefaults" THEN applyDefaultHelper(x, sch).err
    ELSE removeDefaultHelper(sch, x).err

\* The errors of the recursive steps on the fields of the struct x that the
\* struct schema sch declares.
FieldErrs(x, sch) ==
    {StepErr(x.fs[l].v, sch.fs[l].v) : l \in DOMAIN sch.fs \cap DOMAIN x.fs}

\* The errors of the recursive steps on the elements of the list x that have
\* a branch of the element type ele.
ElementErrs(x, ele) ==
    {StepErr(x.es[i], getBranch(ele, x.es[i]).v) :
        i \in {j \in 1..Len(x.es) : getBranch(ele, x.es[j]).err = NoErr}}

TranslateCalled == op = "Translate"

TranslateToCalled == op = "TranslateTo"

\* The lacunas of the steps from s up to the first step that fails.
RECURSIVE LacunasUntilFailure(_)
LacunasUntilFailure(s) ==
    IF s = Nil \/ steps[s].err # NoErr THEN <<>>
    ELSE steps[s].lacunas \o LacunasUntilFailure(Successor(s))

BindCalled == op = "BindLineage"

\* The schema of the bound lineage at the position s.
SchemaAt(s) == candidate.seqs[Version(s)[1] + 1][Version(s)[2] + 1]

\* ---- the claims ----

\* C1: Find(s, LatestInMajor(m)) on a non-nil s whose major is <= m returns,
\* without a panic, the schema with major m and the highest minor, and nil
\* when m exceeds the top major of the lineage.
C1_LatestInMajorReturnsHighestMinor ==
    (/\ FindCalled
     /\ start # Nil
     /\ Len(opt) = 1
     /\ opt[1].kind = "LatestInMajor"
     /\ Version(start)[1] <= opt[1].maj)
    => /\ outcome = "return"
       /\ result = HighestMinorIn(opt[1].maj)
       /\ (opt[1].maj > TopMajor => result = Nil)

\* C2: for every schema s of the lineage, the first one at (0, 0) included,
\* Find(s, Exact(major(s), minor(s))) returns s.
C2_ExactOfOwnVersionReturnsSelf ==
    (/\ FindCalled
     /\ start # Nil
     /\ opt = <<Exact(Version(start)[1], Version(start)[2])>>)
    => /\ outcome = "return"
       /\ result = start

\* C3: Find on a schema panics for every option that selects zero criteria or
\* more than one of latest, latest-in-major, latest-in-current-major, exact.
C3_NotOneCriterionPanics ==
    (/\ FindCalled
     /\ start # Nil
     /\ Cardinality(Criteria(opt)) # 1)
    => outcome = "panic"

\* C4: for every non-nil s, Find(s, Latest()) returns the schema reachable from
\* s that has no successor; Find(First(), Latest()) is Last().
C4_LatestReturnsLast ==
    (/\ FindCalled
     /\ start # Nil
     /\ opt = <<Latest>>)
    => /\ outcome = "return"
       /\ result \in Reach(start)
       /\ Successor(result) = Nil
       /\ (start = First => result = Last)

C4_Witness ==
    /\ FindCalled
    /\ opt = <<Latest>>
    /\ start = First
    /\ outcome = "return"
    /\ result = Last
    /\ Version(result)[1] > Version(start)[1]
    /\ Version(result)[2] > 0

\* C5: for every non-nil s, Find(s, LatestInCurrentMajor()) returns a non-nil
\* schema: the one with the major of s and the highest minor in that major.
C5_LatestInCurrentMajorSucceeds ==
    (/\ FindCalled
     /\ start # Nil
     /\ opt = <<LatestInCurrentMajor>>)
    => /\ outcome = "return"
       /\ result # Nil
       /\ result = HighestMinorIn(Version(start)[1])

C5_Witness ==
    /\ FindCalled
    /\ opt = <<LatestInCurrentMajor>>
    /\ start # Nil
    /\ outcome = "return"
    /\ result # start
    /\ result # Last
    /\ Version(result)[1] = Version(start)[1]

\* The version an accepted option asks for by Exact, <<>> when it asks by
\* another criterion.
ExactRequested(os) ==
    LET p == SearchOption(os, ssopt0)
    IN  IF validate(p) = NoErr /\ ~p.latest /\ ~p.latestInCurrentMajor
           /\ ~p.hasLatestInMajor
        THEN p.exact ELSE <<>>

\* C6: Find never goes backwards: the result of every accepted call is nil, or
\* the start schema or a schema reachable from it (version >= start's); a
\* request for a version, or for a major, before the start schema gives nil.
C6_FindNeverGoesBackwards ==
    /\ (FindCalled /\ outcome = "return")
        => /\ (result = Nil
                \/ (/\ start # Nil
                    /\ result \in Reach(start)
                    /\ ~VersionLess(Version(result), Version(start))))
           /\ (/\ start # Nil
               /\ ExactRequested(opt) # <<>>
               /\ VersionLess(ExactRequested(opt), Version(start)))
               => result = Nil
    /\ \A s \in Schemas : \A m \in Majors :
        m < Version(s)[1] => FindLatestInMajor(s, m) = Nil

C6_Witness ==
    /\ FindCalled
    /\ outcome = "return"
    /\ start # Nil
    /\ ExactRequested(opt) # <<>>
    /\ \E t \in Schemas : /\ Version(t) = ExactRequested(opt)
                          /\ VersionLess(Version(t), Version(start))
    /\ result = Nil

\* C7 as claimed: Find with a nil start schema reports a programmer error (a
\* panic), for every search option.
C7_NilStartPanics ==
    (FindCalled /\ start = Nil) => outcome = "panic"

\* C7 as amended: Find with a nil start schema returns nil for every search
\* option, also for one that validate would reject, and does not panic.
C7_NilStartReturnsNil ==
    (FindCalled /\ start = Nil) => (outcome = "return" /\ result = Nil)

C7_Witness ==
    /\ FindCalled
    /\ start = Nil
    /\ validate(SearchOption(opt, ssopt0)) # NoErr
    /\ outcome = "return"
    /\ result = Nil

\* C8: SearchAndValidate(start, v) validates the schemas reachable from start
\* from newest to oldest, stops at the first that accepts v and returns it,
\* so that the accepting schema of the highest version is returned.
C8_SearchVisitsNewestFirst ==
    SearchCalled
    => /\ outcome = "return"
       /\ visited = UpToFirstAccepting(NewestFirst(start), resource)
       /\ \A t \in Reach(start) :
            Validate(t, resource) = NoErr
            => /\ result # Nil
               /\ Validate(result, resource) = NoErr
               /\ ~VersionLess(Version(result), Version(t))

\* C9: when no schema accepts the instance, the error SearchAndValidate
\* returns carries the diagnostic of every schema that was tried.
C9_ErrorAggregatesDiagnostics ==
    (/\ SearchCalled
     /\ outcome = "return"
     /\ result = Nil
     /\ visited # <<>>)
    => \A k \in 1..Len(visited) :
            Validate(visited[k], resource) \in ErrorMessages(err)

\* C10: a call of SearchAndValidate that returns gives exactly one of a
\* non-nil Schema and a non-nil error, for every start schema, nil included;
\* it never returns (nil, nil).
C10_SchemaXorError ==
    (SearchCalled /\ outcome = "return")
    => ((result # Nil) # (err # NoErr))

\* C11: for every start schema s, AsArray(s) returns without a panic, also
\* when s is not the (0, 0) schema, an array that holds exactly the schemas
\* reachable from s, the schema at [i][j] having Version() (i, j).
C11_AsArrayIndexedByVersion ==
    AsArrayCalled
    => /\ outcome = "return"
       /\ Held(array) = Reach(start)
       /\ \A i \in 1..Len(array) : \A j \in 1..Len(array[i]) :
            Version(array[i][j]) = <<i - 1, j - 1>>

\* C12: when ApplyDefaults succeeds on a struct schema, every non-optional
\* schema field absent from the input is in the output with the field's
\* default, every optional schema field absent from the input stays absent,
\* and every field present in the input is kept: a nested struct is filled by
\* the same rules with its schema field, a number or string is kept as it is,
\* and a list is what the recursion into it with its schema field gave.
C12_StructFieldsFilled ==
    (ApplyCalled /\ StructCall)
    => /\ FieldsFilled(rout.Value, rin.Value, scue)
       /\ \A l \in NestedStructs(rin.Value, scue) :
            FieldsFilled(rout.Value.fs[l].v, rin.Value.fs[l].v, scue.fs[l].v)
       /\ \A l \in (DOMAIN scue.fs \cap DOMAIN rin.Value.fs) \ NestedStructs(rin.Value, scue) :
            LET res == applyDefaultHelper(rin.Value.fs[l].v, scue.fs[l].v)
            IN  IF rin.Value.fs[l].v.k = "atom" THEN rout.Value.fs[l].v = rin.Value.fs[l].v
                ELSE res.err = NoErr => rout.Value.fs[l].v = Data(res.v)

\* A successful call that left an optional field absent and filled a
\* non-optional field of a nested struct that the input holds.
C12_Witness ==
    /\ ApplyCalled /\ StructCall
    /\ \E l \in DOMAIN scue.fs \ DOMAIN rin.Value.fs : scue.fs[l].opt
    /\ \E l \in NestedStructs(rin.Value, scue) :
            DOMAIN rout.Value.fs[l].v.fs # DOMAIN rin.Value.fs[l].v.fs

\* C13: for every instance x valid under the schema s, trimming
\* ApplyDefaults(x, s) gives the same outcome as trimming x: the same error,
\* and on success the same resource.
C13_TrimOfApplyIsTrim ==
    (ApplyCalled /\ err = NoErr /\ ValidUnder(rin.Value, scue))
    => LET a == TrimDefaults(rout, scue)
           b == TrimDefaults(rin, scue)
       IN  a.err = b.err /\ (a.err = NoErr => a.r.Value = b.r.Value)

\* C14: for every instance x valid under the schema s, ApplyDefaults(x, s)
\* returns a nil error and a resource that is concrete and valid under s.
C14_ApplyOfValidIsValid ==
    (ApplyCalled /\ ValidUnder(rin.Value, scue))
    => /\ err = NoErr
       /\ rout.Value = Data(rout.Value)
       /\ IsConcrete(rout.Value)
       /\ ValidUnder(rout.Value, scue)

\* A valid instance for which ApplyDefaults filled something in.
C14_Witness ==
    /\ ApplyCalled
    /\ ValidUnder(rin.Value, scue)
    /\ err = NoErr
    /\ rout.Value # rin.Value

\* C15: when TrimDefaults succeeds on a struct schema, a field of the input
\* whose value equals the schema field's default is absent from the output, a
\* declared field whose value differs from the default, or whose schema field
\* has no default, is kept, and a label the schema does not declare is kept
\* with its input value.
C15_StructFieldsTrimmed ==
    (TrimCalled /\ StructCall)
    => \A l \in DOMAIN rin.Value.fs :
            IF l \notin DOMAIN scue.fs
            THEN l \in DOMAIN rout.Value.fs /\ rout.Value.fs[l].v = rin.Value.fs[l].v
            ELSE IF EqualsDefault(rin.Value.fs[l].v, scue.fs[l].v)
            THEN l \notin DOMAIN rout.Value.fs
            ELSE l \in DOMAIN rout.Value.fs

\* C16: when TrimDefaults succeeds, a list field whose whole value equals the
\* list default of its schema is absent from the output; any other list, as a
\* field or as the whole resource, comes out with the same number of elements
\* in the same order, each trimmed against the branch of the element type that
\* matches it, and kept as it is when it equals a default or no branch matches.
C16_ListTrimmedInPlace ==
    (TrimCalled /\ err = NoErr)
    => /\ (/\ IncompleteKind(scue) = "list"
            /\ rin.Value.k = "list"
            /\ ~EqualsDefault(rin.Value, scue))
           => ListTrimmed(rout.Value, rin.Value, scue)
       /\ (scue.k = "struct" /\ rin.Value.k = "struct")
           => \A l \in NestedLists(rin.Value, scue) :
                IF EqualsDefault(rin.Value.fs[l].v, scue.fs[l].v)
                THEN l \notin DOMAIN rout.Value.fs
                ELSE /\ l \in DOMAIN rout.Value.fs
                     /\ ListTrimmed(rout.Value.fs[l].v, rin.Value.fs[l].v, scue.fs[l].v)

\* A list field of two elements of which one was trimmed and one, matching no
\* branch of the element type, was kept as it is.
C16_Witness ==
    /\ TrimCalled /\ err = NoErr
    /\ scue.k = "struct" /\ rin.Value.k = "struct"
    /\ \E l \in NestedLists(rin.Value, scue) :
        /\ l \in DOMAIN rout.Value.fs
        /\ Exists(LookupAnyIndex(scue.fs[l].v))
        /\ \E i, j \in 1..Len(rin.Value.fs[l].v.es) :
            /\ rout.Value.fs[l].v.es[i] # rin.Value.fs[l].v.es[i]
            /\ getBranch(LookupAnyIndex(scue.fs[l].v), rin.Value.fs[l].v.es[j]).err # NoErr

\* C17: when getDefault reports a default for a list-kinded value, the default
\* is a non-empty list, or the value is a disjunction with an empty list among
\* its branches; for a plain open list, whose type admits the empty list, no
\* default is reported.
C17_NoEmptyListDefault ==
    (GetDefaultCalled /\ IncompleteKind(scue) = "list")
    => /\ dflt.exist
           => \/ dflt.d.k = "list" /\ Len(dflt.d.es) > 0
              \/ scue.k = "or" /\ \E i \in 1..Len(scue.bs) : scue.bs[i] = List(<<>>)
       /\ (scue.k = "list" /\ scue.es = <<>>) => ~dflt.exist

\* getDefault on an open list, for which Value.Default reports the empty list.
C17_Witness ==
    /\ GetDefaultCalled
    /\ scue.k = "list" /\ scue.open
    /\ Default(scue).exist /\ Default(scue).d = List(<<>>)
    /\ ~dflt.exist

\* C18: when ApplyDefaults or TrimDefaults returns and a recursive step on a
\* field of the resource, or on an element of the list the resource is,
\* failed, the error returned is not nil.
C18_NoSilentRecovery ==
    (ApplyCalled \/ TrimCalled)
    => /\ (scue.k = "struct" /\ rin.Value.k = "struct")
           => (FieldErrs(rin.Value, scue) \subseteq {NoErr} \/ err # NoErr)
       /\ (/\ IncompleteKind(scue) = "list"
            /\ rin.Value.k = "list"
            /\ Exists(LookupAnyIndex(scue))
            /\ ~EqualsDefault(rin.Value, scue))
           => (ElementErrs(rin.Value, LookupAnyIndex(scue)) \subseteq {NoErr} \/ err # NoErr)

\* C19: a call of ApplyDefaults or TrimDefaults that returns an error returns
\* the Resource it was given, Name and Value as they were passed in; a call
\* that returns no error returns a new Resource, whose Name is empty and whose
\* Value is the marshalled, concrete result.
C19_InputReturnedOnError ==
    (ApplyCalled \/ TrimCalled)
    => IF err # NoErr THEN rout = rin
       ELSE /\ rout.Name = ""
            /\ IsConcrete(rout.Value)
            /\ rout.Value = Data(rout.Value)

\* A named resource that could be compiled and was returned as it was because
\* the result could not be marshalled.
C19_Witness ==
    /\ ApplyCalled
    /\ err = "cannot marshal"
    /\ rin.Name # ""
    /\ rout = rin

\* C20: Translate returns the Resource it was given when the step failed, the
\* error being non-nil, and when the schema has no successor, the returned
\* schema and error being nil and no lacunas produced; in every other case
\* the returned schema is the Successor() of the schema translated from.
C20_TranslateLandsOnSuccessor ==
    TranslateCalled
    => /\ (err # NoErr \/ Successor(start) = Nil) => rout = rin
       /\ Successor(start) = Nil => (result = Nil /\ err = NoErr /\ lacunas = <<>>)
       /\ (err = NoErr /\ Successor(start) # Nil)
           => (result # Nil /\ result = Successor(start))

\* A step across a sequence boundary that migrated the resource.
C20_Witness ==
    /\ TranslateCalled
    /\ err = NoErr
    /\ Successor(start) # Nil
    /\ Version(Successor(start))[1] # Version(start)[1]
    /\ result = Successor(start)
    /\ rout # rin

\* C21: when a step of a translation to a version fails, the call returns the
\* resource and the schema it was given, the error, and the lacunas of the
\* steps completed before the failure in the order the steps were taken; a
\* call that returns no error returns the resource of the version it reached.
C21_TranslateToIsAtomic ==
    TranslateToCalled
    => IF err # NoErr
       THEN /\ rout = rin
            /\ result = start
            /\ lacunas = LacunasUntilFailure(start)
       ELSE /\ Version(result) = target
            /\ rout = IF result = start THEN rin ELSE Translated(result)

\* A translation that crossed two sequence boundaries, each lens reporting a
\* lacuna, and then failed.
C21_Witness ==
    /\ TranslateToCalled
    /\ err # NoErr
    /\ Len(lacunas) = 2
    /\ lacunas[1].lens < lacunas[2].lens
    /\ rout = rin

C24_ListKeepsItsLength ==
    (/\ ApplyCalled /\ err = NoErr
     /\ IncompleteKind(scue) = "list"
     /\ Exists(LookupAnyIndex(scue))
     /\ rin.Value.k = "list")
    => /\ rout.Value.k = "list"
       /\ Len(rout.Value.es) = Len(rin.Value.es)
       /\ \A i \in 1..Len(rin.Value.es) :
            LET e == rin.Value.es[i]
            IN  rout.Value.es[i]
                    = Data(applyDefaultHelper(e, getBranch(LookupAnyIndex(scue), e).v).v)

\* The bytes written to the output name n, in the order they were written.
RECURSIVE SentTo(_, _)
SentTo(n, log) ==
    IF log = <<>> THEN <<>>
    ELSE (IF Head(log)[1] = n THEN <<Head(log)[2]>> ELSE <<>>) \o SentTo(n, Tail(log))

\* The entries of outFiles with the name n.
EntriesOf(n) == {i \in DOMAIN tc.outFiles : tc.outFiles[i].name = n}

\* C25: after any calls of Write and Writer on one Test, outFiles has at most
\* one entry per output name; every writer that Writer returned is the buffer
\* of the entry of the name its argument normalises to, so names with the
\* same normal form get the same buffer; the default buffer that Write uses
\* is the buffer of the entry named by the prefix, which Writer("") returns;
\* and the buffer entered under a name holds all the bytes written to it.
C25_OneBufferPerName ==
    /\ \A i, j \in DOMAIN tc.outFiles :
            tc.outFiles[i].name = tc.outFiles[j].name => i = j
    /\ \A p \in handed :
            /\ p[2] = Clean(prefix \o p[1])
            /\ \E i \in EntriesOf(p[2]) : tc.outFiles[i].buf = p[3]
    /\ \A p, q \in handed : p[2] = q[2] => p[3] = q[3]
    /\ IF tc.buf = Nil THEN EntriesOf(prefix) = {}
       ELSE \E i \in EntriesOf(prefix) : tc.outFiles[i].buf = tc.buf
    /\ \A k \in DOMAIN sent :
            \E i \in EntriesOf(sent[k][1]) :
                heap[tc.outFiles[i].buf] = SentTo(sent[k][1], sent)

\* Writer("") and Writer("a/..") returned one buffer, the only one of
\* outFiles, and Write wrote to it.
C25_Witness ==
    /\ op = "Write"
    /\ \E p, q \in handed : p[1] = <<>> /\ q[1] = <<"a", "..">> /\ p[3] = q[3]
    /\ Len(heap[tc.buf]) = 1
    /\ Len(tc.outFiles) = 1

\* The names of the output files the test wrote.
OutputNames == {tc.outFiles[i].name : i \in DOMAIN tc.outFiles}

\* C23: with AllowFilesetDivergence set, Run does not hold a difference of
\* the two sets of files against the test. Without golden updating, nothing
\* is reported for an output file that has no golden file, and the test
\* fails only when something was reported; a golden file that the test did
\* not write is not reported and is still in the archive, as it was.
C23_DivergenceIsNoFailure ==
    (op = "Run" /\ tc.AllowFilesetDivergence)
    => /\ ~UpdateGoldenFiles
            => /\ \A n \in OutputNames \ NamesOf(golden) : \A l \in logs : l[2] # n
               /\ failed => logs # {}
       /\ \A g \in DOMAIN golden :
            golden[g].Name \notin OutputNames
                => /\ \A l \in logs : l[2] # golden[g].Name
                   /\ \E j \in DOMAIN archive : archive[j] = golden[g]

====
